---- MODULE Spec2Model ----
(***************************************************************************)
(* The VisionFen component (src/src/components/vision-fen.tsx) as a state  *)
(* machine: its React state, its refs, the DOM elements its render output  *)
(* mounts, the device streams and Cropper instances it creates, and the    *)
(* asynchronous operations it has started and not yet seen complete.       *)
(*                                                                         *)
(* One action is one task of the browser's event loop: an event handler or *)
(* the continuation of an awaited promise, followed by the render React    *)
(* commits for the state it set and the effect that render triggers.       *)
(***************************************************************************)
EXTENDS Naturals, FiniteSets, Sequences, TLC

\* ---- bounds of the model ----
MaxStreams == 3      \* streams getUserMedia may grant in one run
MaxPending == 2      \* getUserMedia calls outstanding at once
MaxCroppers == 2     \* Cropper instances constructed in one run
MaxSubmits == 2      \* toBlob callbacks / POSTs outstanding at once
DestroyCap == 2      \* destroy() calls counted per Cropper (the cap reads "or more")

\* ---- values ----
NULL == "null"
AppState == {"Idle", "CameraOpen", "ImageCaptured", "Loading", "FenReceived", "Error"}
\* canvas.toDataURL("image/jpeg") of a drawn frame, and of a 0 x 0 canvas
FrameDataUrl == "data:image/jpeg;base64,frame"
EmptyCanvasDataUrl == "data:,"
\* the four messages the component passes to setError
CameraErrorMessage == "Could not access the camera. Please check permissions and try again."
CropperErrorMessage == "Cropper.js not loaded. Please refresh the page."
EncodeErrorMessage == "Could not process image for submission."
SubmitErrorMessage == "Failed to get FEN. The server might be down or the image is not a valid chessboard."
\* JavaScript values that reach the fen state: null, a string, a number
JsNull == [type |-> "null"]
JsString(v) == [type |-> "string", value |-> v]
JsNumber(v) == [type |-> "number", value |-> v]
JsUndefined == [type |-> "undefined"]
\* values of the fen field of a parsed 2xx body: absent, "", a FEN string, a non-string
FenStrings == {"8/8/8/8/8/8/8/8 w - - 0 1", "k7/8/8/8/8/8/8/K7 b - - 3 40"}
BodyFens == {JsUndefined, JsString(""), JsNumber(42)} \cup {JsString(f) : f \in FenStrings}
\* JavaScript truthiness of such a value (the test of `if (result.fen)`)
Truthy(v) ==
  CASE v.type = "string" -> v.value # ""
    [] v.type = "number" -> v.value # 0
    [] OTHER -> FALSE
\* how a POST settles: fetch rejects, a non-2xx status, a 2xx whose body is not JSON,
\* or a 2xx with a JSON body
Settlements ==
  {[kind |-> "reject"], [kind |-> "status", status |-> 500], [kind |-> "notjson"]}
    \cup {[kind |-> "json", fen |-> f] : f \in BodyFens}

VARIABLES
  mounted,              \* the component is mounted
  appState,             \* useState: appState
  imageDataUrl,         \* useState: imageDataUrl
  fen,                  \* useState: fen
  error,                \* useState: error
  hasCameraPermission,  \* useState: hasCameraPermission
  streamRef,            \* streamRef.current: 0 (null) or a stream
  videoSrc,             \* srcObject of the mounted <video>: 0 or a stream
  cropperRef,           \* cropperRef.current: 0 (null) or a Cropper
  cropperLoaded,        \* typeof window.Cropper === "function"
  granted,              \* number of streams getUserMedia has granted (streams are 1..granted)
  running,              \* the granted streams whose tracks have not been stopped
  croppers,             \* per constructed Cropper, the number of destroy() calls on it
  camPending,           \* outstanding getUserMedia calls: [fresh, stale]
  blobPending,          \* outstanding toBlob callbacks: [fresh, stale]
  fetchPending,         \* outstanding POSTs: [fresh, stale]
  toasts,               \* toast() calls made by the last task
  raised,               \* the last task ended in an uncaught error
  offTable              \* some handler ran in a state whose render offers no control for it

vars == <<mounted, appState, imageDataUrl, fen, error, hasCameraPermission, streamRef,
          videoSrc, cropperRef, cropperLoaded, granted, running, croppers, camPending,
          blobPending, fetchPending, toasts, raised, offTable>>

\* The state as one record, so that a handler is an operator from state to state.
Cur ==
  [mounted |-> mounted, appState |-> appState, imageDataUrl |-> imageDataUrl, fen |-> fen,
   error |-> error, hasCameraPermission |-> hasCameraPermission, streamRef |-> streamRef,
   videoSrc |-> videoSrc, cropperRef |-> cropperRef, cropperLoaded |-> cropperLoaded,
   granted |-> granted, running |-> running, croppers |-> croppers,
   camPending |-> camPending, blobPending |-> blobPending, fetchPending |-> fetchPending,
   toasts |-> toasts, raised |-> raised, offTable |-> offTable]

Becomes(s) ==
  /\ mounted' = s.mounted
  /\ appState' = s.appState
  /\ imageDataUrl' = s.imageDataUrl
  /\ fen' = s.fen
  /\ error' = s.error
  /\ hasCameraPermission' = s.hasCameraPermission
  /\ streamRef' = s.streamRef
  /\ videoSrc' = s.videoSrc
  /\ cropperRef' = s.cropperRef
  /\ cropperLoaded' = s.cropperLoaded
  /\ granted' = s.granted
  /\ running' = s.running
  /\ croppers' = s.croppers
  /\ camPending' = s.camPending
  /\ blobPending' = s.blobPending
  /\ fetchPending' = s.fetchPending
  /\ toasts' = s.toasts
  /\ raised' = s.raised
  /\ offTable' = s.offTable

NonePending == [fresh |-> 0, stale |-> 0]
Outstanding(p) == p.fresh + p.stale
\* every outstanding operation now belongs to a state the machine has left
Aged(p) == [fresh |-> 0, stale |-> p.fresh + p.stale]
\* one more operation is started, by the state the machine is in now
Started(p) == [p EXCEPT !.fresh = @ + 1]

\* ---- what the committed render mounts ----
\* (a render that kept the <video> mounted in every card)
VideoRefCurrent_InEveryCard(s) == s.mounted

\* The <video ref={videoRef}> element exists only in the CameraOpen card.
VideoRefCurrent(s) == s.mounted /\ s.appState = "CameraOpen"
\* The <img ref={imageRef}> element exists only in the ImageCaptured card.
ImageRefCurrent(s) == s.mounted /\ s.appState = "ImageCaptured"

\* the control that invokes each handler, by the card that renders it
Offers(s, handler) ==
  /\ s.mounted
  /\ CASE handler = "requestCameraPermission" -> s.appState = "Idle"
       [] handler = "handleCapture" -> s.appState = "CameraOpen"
       [] handler = "handleRetake" -> s.appState = "ImageCaptured"
       [] handler = "handleSubmit" -> s.appState = "ImageCaptured"
       [] handler = "handleReset" -> s.appState \in {"CameraOpen", "FenReceived", "Error"}

Init ==
  /\ mounted = TRUE
  /\ appState = "Idle"
  /\ imageDataUrl = NULL
  /\ fen = JsNull
  /\ error = NULL
  /\ hasCameraPermission = NULL
  /\ streamRef = 0
  /\ videoSrc = 0
  /\ cropperRef = 0
  /\ cropperLoaded \in BOOLEAN
  /\ granted = 0
  /\ running = {}
  /\ croppers = <<>>
  /\ camPending = NonePending
  /\ blobPending = NonePending
  /\ fetchPending = NonePending
  /\ toasts = 0
  /\ raised = FALSE
  /\ offTable = FALSE

Min(a, b) == IF a < b THEN a ELSE b

\* ---- lines 42-50 ----
\* (cleanupCamera without the test of streamRef.current: getTracks of null throws)
cleanupCamera_Unguarded(dom, s) ==
  IF s.streamRef = 0
  THEN [s EXCEPT !.raised = TRUE]
  ELSE [s EXCEPT !.running = @ \ {s.streamRef}, !.streamRef = 0,
                 !.videoSrc = IF VideoRefCurrent(dom) THEN 0 ELSE @]

\* cleanupCamera, run while `dom` is the committed render
cleanupCamera(dom, s) ==
  [s EXCEPT !.running = IF s.streamRef # 0 THEN @ \ {s.streamRef} ELSE @,
            !.streamRef = 0,
            !.videoSrc = IF VideoRefCurrent(dom) THEN 0 ELSE @]

\* ---- lines 92-119: the effect on [appState, imageDataUrl] ----
DepsChanged(a, b) == a.appState # b.appState \/ a.imageDataUrl # b.imageDataUrl

\* lines 114-118, the cleanup: cropperRef.current is read when the cleanup runs
EffectCleanup(s) ==
  IF s.cropperRef # 0
  THEN [s EXCEPT !.croppers[s.cropperRef] = Min(@ + 1, DestroyCap)]
  ELSE s

\* lines 93-112, the body
EffectBody(s) ==
  IF s.appState = "ImageCaptured" /\ ImageRefCurrent(s) /\ s.imageDataUrl # NULL
  THEN IF ~s.cropperLoaded
       THEN [s EXCEPT !.error = CropperErrorMessage, !.appState = "Error"]
       ELSE [s EXCEPT !.croppers = Append(@, 0), !.cropperRef = Len(s.croppers) + 1]
  ELSE s

\* React drops a state update made after the component unmounted; refs, streams and
\* toasts are not React state and change all the same.
Kept(old, new) ==
  IF old.mounted
  THEN new
  ELSE [new EXCEPT !.appState = old.appState, !.imageDataUrl = old.imageDataUrl,
                   !.fen = old.fen, !.error = old.error,
                   !.hasCameraPermission = old.hasCameraPermission]

\* The commit of `new` after `old`: the <video> of the old render survives only if both
\* renders show the CameraOpen card; when a dependency changed the effect's cleanup and
\* body run, and when the body set state (Cropper missing) the commit of that state runs
\* the cleanup once more.
Render(old, new) ==
  LET dom == [new EXCEPT !.videoSrc = IF VideoRefCurrent(old) /\ VideoRefCurrent(new)
                                       THEN @ ELSE 0]
  IN IF ~new.mounted \/ ~DepsChanged(old, new)
     THEN dom
     ELSE LET e == EffectBody(EffectCleanup(dom))
          IN IF DepsChanged(dom, e) THEN EffectBody(EffectCleanup(e)) ELSE e

\* A submission belongs to the Loading state it was started in: once the machine is
\* elsewhere, what is still outstanding is stale.
LeftLoading(s) ==
  IF s.appState # "Loading"
  THEN [s EXCEPT !.blobPending = Aged(@), !.fetchPending = Aged(@)]
  ELSE s

\* the state at the start of a task
Task == [Cur EXCEPT !.toasts = 0, !.raised = FALSE]

\* one task of the event loop: the handler's result `new`, committed
Run(new) ==
  LET s == LeftLoading(Render(Cur, Kept(Cur, new)))
  IN /\ Len(s.croppers) <= MaxCroppers
     /\ Becomes(s)

\* a task started by a user event on `handler`
Event(handler, new) ==
  /\ mounted
  /\ Run([new EXCEPT !.offTable = @ \/ ~Offers(Cur, handler)])

\* ---- lines 52-55: requestCameraPermission up to the await ----
requestCameraPermission(s) ==
  [cleanupCamera(s, s) EXCEPT !.camPending = Started(Aged(@))]

RequestCameraPermission ==
  /\ Outstanding(camPending) < MaxPending
  /\ Event("requestCameraPermission", requestCameraPermission(Task))

\* ---- lines 56-62: getUserMedia resolved with a new stream ----
Granted(s) ==
  LET stream == s.granted + 1
      got == [s EXCEPT !.granted = stream, !.running = @ \cup {stream},
                       !.hasCameraPermission = "true"]
  IN IF VideoRefCurrent(s)
     THEN [got EXCEPT !.videoSrc = stream, !.streamRef = stream, !.appState = "CameraOpen"]
     ELSE got

\* ---- lines 63-74: getUserMedia rejected ----
Rejected(s) ==
  [s EXCEPT !.hasCameraPermission = "false", !.error = CameraErrorMessage,
            !.appState = "Error", !.toasts = @ + 1]

Freshness == {"fresh", "stale"}
Taken(p, f) == [p EXCEPT ![f] = @ - 1]

GetUserMediaGranted ==
  \E f \in Freshness :
    /\ camPending[f] > 0
    /\ granted < MaxStreams
    /\ Run(Granted([Task EXCEPT !.camPending = Taken(@, f)]))

GetUserMediaRejected ==
  \E f \in Freshness :
    /\ camPending[f] > 0
    /\ Run(Rejected([Task EXCEPT !.camPending = Taken(@, f)]))

\* ---- lines 173-180 ----
handleReset(s) ==
  [cleanupCamera(s, s) EXCEPT !.imageDataUrl = NULL, !.fen = JsNull, !.error = NULL,
                              !.appState = "Idle", !.hasCameraPermission = NULL,
                              !.camPending = Aged(@)]

HandleReset ==
  /\ mounted
  /\ Event("handleReset", handleReset(Task))

\* ---- lines 77-90 ----
\* ctx: canvas.getContext("2d") gave a context; ready: the video has a frame, so that
\* videoWidth and videoHeight are not 0
handleCapture(s, ctx, ready) ==
  IF VideoRefCurrent(s) /\ ctx
  THEN cleanupCamera(s, [s EXCEPT !.imageDataUrl = IF ready THEN FrameDataUrl
                                                   ELSE EmptyCanvasDataUrl,
                                  !.appState = "ImageCaptured"])
  ELSE s

HandleCapture ==
  /\ mounted
  /\ \E ctx \in BOOLEAN, ready \in BOOLEAN :
       Event("handleCapture", handleCapture(Task, ctx, ready))

\* ---- lines 182-186 ----
handleRetake(s) ==
  requestCameraPermission([s EXCEPT !.imageDataUrl = NULL, !.error = NULL])

HandleRetake ==
  /\ Outstanding(camPending) < MaxPending
  /\ Event("handleRetake", handleRetake(Task))

\* ---- lines 121-131: handleSubmit up to the toBlob call ----
\* getCroppedCanvas of a destroyed Cropper returns null (cropperjs 1.6.2 is no longer
\* `ready` after destroy), so `.toBlob` throws after setAppState(Loading) was called.
handleSubmit(s) ==
  IF s.cropperRef = 0
  THEN s
  ELSE IF s.croppers[s.cropperRef] > 0
       THEN [s EXCEPT !.appState = "Loading", !.raised = TRUE]
       ELSE [s EXCEPT !.appState = "Loading", !.blobPending = Started(@)]

HandleSubmit ==
  /\ Outstanding(blobPending) + Outstanding(fetchPending) < MaxSubmits
  /\ Event("handleSubmit", handleSubmit(Task))

\* ---- lines 131-145: the toBlob callback, to the fetch call ----
\* f: whether the submit that asked for the blob belongs to the present Loading state
toBlobCallback(s, f, blob) ==
  IF ~blob
  THEN [s EXCEPT !.error = EncodeErrorMessage, !.appState = "Error"]
  ELSE [s EXCEPT !.fetchPending[f] = @ + 1]

ToBlobCallback ==
  \E f \in Freshness, blob \in BOOLEAN :
    /\ blobPending[f] > 0
    /\ Run(toBlobCallback([Task EXCEPT !.blobPending = Taken(@, f)], f, blob))

\* ---- lines 147-169: the POST settled ----
SubmitFailed(s) ==
  [s EXCEPT !.error = SubmitErrorMessage, !.appState = "Error", !.toasts = @ + 1]

fetchSettled(s, r) ==
  LET handled ==
        IF r.kind = "json" /\ Truthy(r.fen)
        THEN [s EXCEPT !.fen = r.fen, !.appState = "FenReceived"]
        ELSE SubmitFailed(s)
  IN [handled EXCEPT !.imageDataUrl = NULL]

FetchSettled ==
  \E f \in Freshness, r \in Settlements :
    /\ fetchPending[f] > 0
    /\ Run(fetchSettled([Task EXCEPT !.fetchPending = Taken(@, f)], r))

\* ---- next/script loads cropper.min.js (src/src/app/page.tsx line 37) ----
CropperScriptLoaded ==
  /\ ~cropperLoaded
  /\ Run([Task EXCEPT !.cropperLoaded = TRUE])

\* ---- the component unmounts: the effect's cleanup (lines 114-118) is all that runs ----
Unmount ==
  /\ mounted
  /\ Becomes([EffectCleanup(Task) EXCEPT !.mounted = FALSE, !.videoSrc = 0])

\* The user's events, the camera's answers, the script load and the unmount.
Next ==
  \/ RequestCameraPermission
  \/ GetUserMediaGranted
  \/ GetUserMediaRejected
  \/ HandleCapture
  \/ HandleRetake
  \/ HandleSubmit
  \/ HandleReset
  \/ CropperScriptLoaded
  \/ Unmount

Spec == Init /\ [][Next]_vars

\* Next with the two continuations of a submission. No reachable state has a toBlob
\* callback or a POST outstanding (NothingSubmitted), so SpecAll and Spec have the same
\* behaviours.
NextAll == Next \/ ToBlobCallback \/ FetchSettled

SpecAll == Init /\ [][NextAll]_vars

\* The camera never opens: the grant finds no <video> mounted (line 57), so appState
\* stays out of CameraOpen and of every state that is entered from it.
CameraNeverOpens ==
  /\ appState \in {"Idle", "Error"}
  /\ streamRef = 0 /\ videoSrc = 0 /\ cropperRef = 0 /\ croppers = <<>>
  /\ imageDataUrl = NULL /\ fen = JsNull

NothingSubmitted == Outstanding(blobPending) + Outstanding(fetchPending) = 0

\* ---- the three resources ----
LiveCamera == running # {}
LiveCropper == \E c \in DOMAIN croppers : croppers[c] = 0
InFlightPost == Outstanding(fetchPending) > 0

\* C1: in every reachable state at most one of the three kinds of resource is live: a
\* granted camera stream whose tracks have not been stopped, a Cropper that has not been
\* destroyed, a POST to the prediction endpoint that has not settled. Since a task is
\* atomic, one kind is never started while another is still live at the task's end.
C1_AtMostOneKindLive ==
  /\ ~(LiveCamera /\ LiveCropper)
  /\ ~(LiveCamera /\ InFlightPost)
  /\ ~(LiveCropper /\ InFlightPost)

\* a camera stream has been started and is the one live resource
C1_Witness == LiveCamera /\ ~LiveCropper /\ ~InFlightPost /\ ~offTable

\* C3: the outcome of a getUserMedia call that is stale (a later request was issued, or
\* the state was reset, since the call was made) changes neither appState, error,
\* hasCameraPermission nor the recorded stream. Stated for the runs driven through the
\* rendered controls alone.
C3_StaleCameraOutcomeDiscarded ==
  [][(camPending'.stale < camPending.stale /\ ~offTable')
       => UNCHANGED <<appState, error, hasCameraPermission, streamRef>>]_vars

\* C4: when the component is in Idle and the request it made from Idle is granted, the
\* machine is in CameraOpen afterwards, with the granted stream running, bound to the
\* video surface and recorded in streamRef.
C4_GrantFromIdleOpensCamera ==
  [][(mounted /\ ~offTable /\ appState = "Idle"
        /\ camPending'.fresh < camPending.fresh /\ granted' = granted + 1)
       => (appState' = "CameraOpen" /\ streamRef' = granted' /\ videoSrc' = granted'
             /\ granted' \in running')]_vars

\* C6: at no time is more than one granted stream running. Stated for the runs driven
\* through the rendered controls alone.
C6_AtMostOneCameraSession == ~offTable => Cardinality(running) <= 1

\* C7: after a reset to Idle no camera stream is running and no Cropper is undestroyed.
\* Stated for the resets made through a rendered control, in runs driven through the
\* rendered controls alone.
C7_ResetLeavesNothingLive ==
  [][(HandleReset /\ ~offTable') => (~LiveCamera' /\ ~LiveCropper')]_vars

\* C12: when getUserMedia rejects, the machine is in Error afterwards with the camera
\* message, hasCameraPermission is false, and no camera stream is referenced (streamRef,
\* the video surface) or left running. Stated for mounted components, in runs driven
\* through the rendered controls alone.
C12_RejectionLeavesNoStream ==
  [][(mounted /\ ~offTable' /\ GetUserMediaRejected)
       => (appState' = "Error" /\ error' = CameraErrorMessage
             /\ hasCameraPermission' = "false"
             /\ streamRef' = 0 /\ videoSrc' = 0 /\ running' = {})]_vars

\* C15: cleanupCamera is idempotent. Whatever stream handle is held (none, or any
\* stream), whichever streams are running and whichever card is rendered, a call raises
\* no error, leaves the handle null, the video surface detached and no track of the held
\* stream running; with nothing held and no video surface it changes nothing; and a
\* second call changes nothing.
C15_CleanupCameraIdempotent ==
  \A held \in 0..MaxStreams, live \in SUBSET (1..MaxStreams), card \in AppState :
    LET s == [Task EXCEPT !.streamRef = held, !.videoSrc = held, !.running = live,
                          !.appState = card]
        once == cleanupCamera(s, s)
        twice == cleanupCamera(once, once)
    IN /\ ~once.raised /\ ~twice.raised
       /\ once.streamRef = 0
       /\ held # 0 => held \notin once.running
       /\ VideoRefCurrent(s) => once.videoSrc = 0
       /\ (held = 0 /\ ~VideoRefCurrent(s)) => once = s
       /\ twice = once

\* two requests in a row have each called cleanupCamera with no stream held
C15_Witness ==
  /\ camPending = [fresh |-> 1, stale |-> 1]
  /\ streamRef = 0 /\ ~raised /\ ~offTable

\* a Cropper that was constructed and not destroyed is referenced
LiveCropSession == cropperRef # 0 /\ croppers[cropperRef] = 0

====
